---------------------------- MODULE Spec2Model ----------------------------
(***************************************************************************)
(* The commit rule of mysticeti-core as implemented by                     *)
(* UniversalCommitter::try_commit (consensus/universal_committer.rs),      *)
(* over a block store that keeps the blocks of a round in insertion        *)
(* order, and the committer's builder.  The specifications share the       *)
(* state: Spec inserts blocks of any authority at any round, SpecRounds    *)
(* builds the DAG round by round, SpecAgreement runs a second authority    *)
(* that receives the same blocks, SpecSparse inserts blocks at far-apart   *)
(* rounds, SpecBuilder configures and builds the committer, SpecPipeline   *)
(* runs a committer with and one without pipeline, SpecDriver runs the     *)
(* caller's loop, SpecConcurrent takes a call statement by statement.      *)
(* The orchestrator's local provider and executor follow: SpecClient calls *)
(* the operations of LocalClient one after the other, SpecTasks calls them *)
(* from concurrent tasks, SpecExecutor runs execute, wait_for_command and  *)
(* wait_for_success of LocalCommandExecutor.                               *)
(***************************************************************************)
EXTENDS Naturals, Sequences, FiniteSets

\* ------------------------------------------------------------------ bounds

\* Blocks above genesis that the free-order specifications insert.
MaxBlocks == 3

\* Highest round the free-order specifications insert a block at.
MaxRound == 2

\* Highest round of the round-by-round specification.
MaxWaveRound == 10

\* Blocks of the round-by-round specification that leave the previous
\* round's leader block out of their parents.
MaxOmissions == 2

\* Highest wave length a builder is configured with.
MaxWaveLength == 4

\* Blocks above genesis that the specification with far-apart rounds inserts,
\* and the highest round it inserts one at.
MaxSparseBlocks == 2

MaxSparseRound == 8

\* Blocks above genesis inserted while a try_commit call is running.
MaxInterleaved == 2

\* Instances a LocalClient creates, and tasks that call it concurrently.
MaxInstances == 3

MaxTasks == 2

\* Instances that the concurrent tasks create in all.
MaxCreated == 2

\* Polls of wait_for_command and attempts of wait_for_success that are
\* followed, and instances handed to the executor.
MaxPolls == 3

MaxTargets == 2

\* ------------------------------------------------- committee and schedule

Authorities == 0 .. 3

stake_of(a) == 1

RECURSIVE StakeSum(_)
StakeSum(S) ==
    IF S = {} THEN 0
    ELSE LET a == CHOOSE x \in S : TRUE
         IN  stake_of(a) + StakeSum(S \ {a})

total_stake == StakeSum(Authorities)

\* 2f+1 by stake.
quorum_threshold == (2 * total_stake) \div 3 + 1

\* Round-robin leader schedule.
leader_for(round) == round % Cardinality(Authorities)

\* ------------------------------------------------------------ block store

BlockReference(a, r, d) == [authority |-> a, round |-> r, digest |-> d]

StatementBlock(ref, inc) == [reference |-> ref, includes |-> inc]

GenesisRef(a) == BlockReference(a, 0, 0)

RECURSIVE GenesisFrom(_)
GenesisFrom(a) ==
    IF a \notin Authorities THEN << >>
    ELSE << StatementBlock(GenesisRef(a), {}) >> \o GenesisFrom(a + 1)

\* The genesis blocks, one per authority, in authority order.
GenesisBlocks == GenesisFrom(0)

Refs(store) == { store[i].reference : i \in 1 .. Len(store) }

RECURSIVE MaxOf(_)
MaxOf(S) ==
    IF S = {} THEN 0
    ELSE LET x == CHOOSE y \in S : TRUE
             m == MaxOf(S \ {x})
         IN  IF x > m THEN x ELSE m

\* BlockStore::highest_round: 0 for a store without blocks.
highest_round(store) == MaxOf({ store[i].reference.round : i \in 1 .. Len(store) })

\* BlockStore::get_blocks_by_round: the blocks of the round, first seen first.
get_blocks_by_round(store, round) ==
    SelectSeq(store, LAMBDA b : b.reference.round = round)

\* BlockStore::insert_block: appends; a block already held is not held twice.
insert_block(store, block) ==
    IF block.reference \in Refs(store) THEN store ELSE Append(store, block)

\* ----------------------------------------------------------- leader status

Commit(block) == [kind |-> "Commit", block |-> block]

Skip(a, r) == [kind |-> "Skip", authority |-> a, round |-> r]

Undecided(a, r) == [kind |-> "Undecided", authority |-> a, round |-> r]

\* LeaderStatus::round and LeaderStatus::authority.
StatusRound(s) == IF s.kind = "Commit" THEN s.block.reference.round ELSE s.round

StatusAuthority(s) ==
    IF s.kind = "Commit" THEN s.block.reference.authority ELSE s.authority

\* ------------------------------------------------------ universal committer

\* A faulty variant of the loop: the last block of each round instead of the
\* first.
RECURSIVE commit_rounds_last(_, _, _, _)
commit_rounds_last(store, last_decided_round, round, highest) ==
    IF round > highest THEN << >>
    ELSE LET blocks == get_blocks_by_round(store, round)
             here == IF blocks # << >> /\ blocks[Len(blocks)].reference.round > last_decided_round
                     THEN << Commit(blocks[Len(blocks)]) >>
                     ELSE << >>
         IN  here \o commit_rounds_last(store, last_decided_round, round + 1, highest)

\* A faulty variant of the loop: of the blocks that the author of the round's
\* first block has at the round, the one inserted last.
RECURSIVE commit_rounds_equivocating(_, _, _, _)
commit_rounds_equivocating(store, last_decided_round, round, highest) ==
    IF round > highest THEN << >>
    ELSE LET blocks == get_blocks_by_round(store, round)
             slot == SelectSeq(blocks,
                         LAMBDA b : b.reference.authority = Head(blocks).reference.authority)
             here == IF blocks # << >> /\ Head(blocks).reference.round > last_decided_round
                     THEN << Commit(slot[Len(slot)]) >>
                     ELSE << >>
         IN  here \o commit_rounds_equivocating(store, last_decided_round, round + 1, highest)

\* A faulty variant of the loop: every block of a round is pushed, not only
\* the first.
RECURSIVE commit_rounds_every(_, _, _, _)
commit_rounds_every(store, last_decided_round, round, highest) ==
    IF round > highest THEN << >>
    ELSE LET blocks == get_blocks_by_round(store, round)
             here == [i \in 1 .. Len(blocks) |-> Commit(blocks[i])]
         IN  here \o commit_rounds_every(store, last_decided_round, round + 1, highest)

\* The loop of try_commit over the rounds round ..= highest.
RECURSIVE commit_rounds(_, _, _, _)
commit_rounds(store, last_decided_round, round, highest) ==
    IF round > highest THEN << >>
    ELSE LET blocks == get_blocks_by_round(store, round)
             here == IF blocks # << >> /\ Head(blocks).reference.round > last_decided_round
                     THEN << Commit(Head(blocks)) >>
                     ELSE << >>
         IN  here \o commit_rounds(store, last_decided_round, round + 1, highest)

\* A faulty variant of the loop: the watermark's own round is let through
\* (>= for >).
RECURSIVE commit_rounds_inclusive(_, _, _, _)
commit_rounds_inclusive(store, last_decided_round, round, highest) ==
    IF round > highest THEN << >>
    ELSE LET blocks == get_blocks_by_round(store, round)
             here == IF blocks # << >> /\ Head(blocks).reference.round >= last_decided_round
                     THEN << Commit(Head(blocks)) >>
                     ELSE << >>
         IN  here \o commit_rounds_inclusive(store, last_decided_round, round + 1, highest)

\* A faulty variant of try_commit: the early return is lost and the range
\* starts at the watermark's round.
try_commit_inclusive(store, last_decided) ==
    LET highest == highest_round(store)
        last_decided_round == last_decided.round
    IN  commit_rounds_inclusive(store, last_decided_round, last_decided_round, highest)

\* A faulty variant of try_commit: the range starts above genesis instead of
\* above the watermark.
try_commit_from_genesis(store, last_decided) ==
    LET highest == highest_round(store)
        last_decided_round == last_decided.round
    IN  IF last_decided_round >= highest THEN << >>
        ELSE commit_rounds(store, 0, 1, highest)

\* UniversalCommitter::try_commit, the returned sequence.
try_commit(store, last_decided) ==
    LET highest == highest_round(store)
        last_decided_round == last_decided.round
    IN  IF last_decided_round >= highest THEN << >>
        ELSE commit_rounds(store, last_decided_round, last_decided_round + 1, highest)

\* consensus::DEFAULT_WAVE_LENGTH.
DEFAULT_WAVE_LENGTH == 3

\* UniversalCommitterBuilder::new: the default wave length, no pipeline. The
\* field built tells a builder that build() has consumed.
new_builder == [wave_length |-> DEFAULT_WAVE_LENGTH, pipeline |-> FALSE, built |-> FALSE]

with_wave_length(b, wave_length) == [b EXCEPT !.wave_length = wave_length]

with_pipeline(b, pipeline) == [b EXCEPT !.pipeline = pipeline]

\* BaseCommitter::new(..).with_options(BaseCommitterOptions { .. }).
BaseCommitter(wave_length, round_offset) ==
    [wave_length |-> wave_length, round_offset |-> round_offset]

\* A faulty variant of build: the offsets start at 1.
build_from_one(b) ==
    LET pipeline_stages == IF b.pipeline THEN b.wave_length ELSE 1
    IN  [i \in 1 .. pipeline_stages |-> BaseCommitter(b.wave_length, i)]

\* UniversalCommitterBuilder::build, the committers of the universal
\* committer: one per round_offset in 0 .. pipeline_stages - 1.
build(b) ==
    LET pipeline_stages == IF b.pipeline THEN b.wave_length ELSE 1
    IN  [i \in 1 .. pipeline_stages |-> BaseCommitter(b.wave_length, i - 1)]

\* The struct UniversalCommitter (its metrics handle apart).
UniversalCommitter(store, cs) == [block_store |-> store, committers |-> cs]

\* The base committer answers for the round: it is a leader round of its
\* offset.
Responsible(c, round) ==
    c.wave_length > 0 /\ round % c.wave_length = c.round_offset

\* A faulty variant of the method: only the rounds that one of self's base
\* committers answers for are decided.
self_try_commit_by_offset(self, last_decided) ==
    SelectSeq(try_commit(self.block_store, last_decided),
              LAMBDA s : \E i \in DOMAIN self.committers :
                             Responsible(self.committers[i], StatusRound(s)))

\* UniversalCommitter::try_commit as a method of self: it reads
\* self.block_store and never self.committers.
self_try_commit(self, last_decided) == try_commit(self.block_store, last_decided)

\* The label update_metrics counts a decided leader under.
metric_label(leader, direct_decide) ==
    LET direct_or_indirect == IF direct_decide THEN "direct" ELSE "indirect"
        status == IF leader.kind = "Commit" THEN "commit" ELSE "skip"
    IN  << StatusAuthority(leader), direct_or_indirect, status >>

\* A faulty variant of update_metrics: a decided leader is counted twice.
update_metrics_twice(incs, leader, direct_decide) ==
    IF leader.kind = "Undecided" THEN incs
    ELSE Append(Append(incs, metric_label(leader, direct_decide)),
                metric_label(leader, direct_decide))

\* UniversalCommitter::update_metrics: the increments sent to
\* committed_leaders_total, with the one for leader added; none for Undecided.
update_metrics(incs, leader, direct_decide) ==
    IF leader.kind = "Undecided" THEN incs
    ELSE Append(incs, metric_label(leader, direct_decide))

\* The increments of one try_commit call: update_metrics(.., true) on every
\* element it pushes.
RECURSIVE metrics_of(_)
metrics_of(seq) ==
    IF seq = << >> THEN << >>
    ELSE << >> \o update_metrics(<< >>, Head(seq), TRUE) \o metrics_of(Tail(seq))

\* ------------------------------------------------------------------- state

VARIABLES
    block_store,     \* this authority's block store, in insertion order
    peer_store,      \* another honest authority's block store
    last_decided,    \* the watermark of the latest try_commit call
    committed,       \* the sequence that call returned
    peer_committed,  \* the sequence the peer's latest call returned
    metric_incs,     \* the counter increments that call made
    fresh,           \* committed is the result of a call on the present store
    peer_fresh,      \* peer_committed likewise, for the same watermark
    omitted,         \* blocks inserted so far that left the leader out
    builder,         \* the UniversalCommitterBuilder
    committers,      \* UniversalCommitter::committers of this committer
    pipelined_committers,  \* those of a second committer on the same store
    driver,          \* the driving loop of this committer: watermark, stream
    pipelined_driver,      \* the driving loop of the second committer
    call,            \* the try_commit call in progress, statement by statement
    instances,       \* LocalClient::instances, the Vec behind the mutex
    client_call,     \* the latest LocalClient operation, its argument and result
    lock,            \* the task that holds the mutex of instances, if any
    tasks,           \* the LocalClient operation each task is running
    history,         \* the ids create_instance returned; whether any
                     \* instance was stopped or deleted
    exec             \* the LocalCommandExecutor call in progress

others ==
    << builder, committers, pipelined_committers, driver, pipelined_driver, call >>

orchestrator == << instances, client_call, lock, tasks, history, exec >>

vars == << block_store, peer_store, last_decided, committed, peer_committed,
           metric_incs, fresh, peer_fresh, omitted, others, orchestrator >>

\* The orchestrator before any of its operations: LocalClient::new holds an
\* empty Vec behind a free mutex, no task and no executor call is running.
NoTask == 0

Tasks == 1 .. MaxTasks

IdleTask == [op |-> "none", pc |-> "idle", ids |-> { }, idx |-> 0, result |-> << >>]

IdleExec ==
    [op |-> "none", pc |-> "idle", n |-> 0, status |-> "none", polls |-> 0,
     runs |-> 0, results |-> << >>, outcome |-> "none"]

OrchestratorIdle ==
    /\ instances = << >>
    /\ client_call = [op |-> "new", ids |-> { }, result |-> << >>]
    /\ lock = NoTask
    /\ tasks = [t \in Tasks |-> IdleTask]
    /\ history = [created |-> << >>, removed |-> FALSE]
    /\ exec = IdleExec

\* A committer built from a builder left at its defaults; no second
\* committer, no driving loop started, no call in progress.
IdleDriver == [watermark |-> GenesisRef(0), stream |-> << >>]

IdleCall ==
    [pc |-> "idle", last_decided |-> GenesisRef(0), highest |-> 0, round |-> 0,
     acc |-> << >>]

BuiltByDefault ==
    /\ builder = [new_builder EXCEPT !.built = TRUE]
    /\ committers = build(new_builder)
    /\ pipelined_committers = << >>
    /\ driver = IdleDriver
    /\ pipelined_driver = IdleDriver
    /\ call = IdleCall
    /\ OrchestratorIdle

Watermarks == { BlockReference(0, r, 0) : r \in 0 .. MaxRound }

Init ==
    /\ block_store = << >>
    /\ peer_store = << >>
    /\ last_decided = GenesisRef(0)
    /\ committed = << >>
    /\ peer_committed = << >>
    /\ metric_incs = << >>
    /\ fresh = FALSE
    /\ peer_fresh = FALSE
    /\ omitted = 0
    /\ BuiltByDefault

\* Core start-up: the genesis blocks enter the empty store.
InsertGenesis ==
    /\ block_store = << >>
    /\ block_store' = GenesisBlocks
    /\ fresh' = FALSE
    /\ UNCHANGED << peer_store, last_decided, committed, peer_committed,
                    metric_incs, peer_fresh, omitted >>
    /\ UNCHANGED others
    /\ UNCHANGED orchestrator

\* The references of the store's blocks at a round.
RefsAt(store, round) ==
    { store[i].reference : i \in { j \in 1 .. Len(store) : store[j].reference.round = round } }

\* The number of blocks the store holds of authority a at round.
SlotCount(store, a, round) ==
    Cardinality({ ref \in RefsAt(store, round) : ref.authority = a })

\* A block of authority a at round, built on the blocks of the previous
\* round that the store holds; with omit, without the previous leader's.
\* Its digest tells it from the other blocks of the same slot.
NewBlock(store, a, round, omit) ==
    LET prev == RefsAt(store, round - 1)
        inc == IF omit
               THEN { ref \in prev : ref.authority # leader_for(round - 1) }
               ELSE prev
    IN  StatementBlock(BlockReference(a, round, SlotCount(store, a, round)), inc)

\* A block arrives, at any round and from any authority, and is inserted.
AddBlock(a, round) ==
    /\ block_store # << >>
    /\ Len(block_store) < Len(GenesisBlocks) + MaxBlocks
    /\ block_store' = insert_block(block_store, NewBlock(block_store, a, round, FALSE))
    /\ fresh' = FALSE
    /\ UNCHANGED << peer_store, last_decided, committed, peer_committed,
                    metric_incs, peer_fresh, omitted >>
    /\ UNCHANGED others
    /\ UNCHANGED orchestrator

\* A faulty variant of the call: a committer that remembers what its previous
\* call returned and returns only what is new.
TryCommitRemembering(w) ==
    LET result == SelectSeq(try_commit(block_store, w),
                            LAMBDA s : \A i \in DOMAIN committed : committed[i] # s)
    IN  /\ last_decided' = w
        /\ committed' = result
        /\ metric_incs' = metrics_of(result)
        /\ fresh' = TRUE
        /\ peer_fresh' = FALSE
        /\ UNCHANGED << block_store, peer_store, peer_committed, omitted >>
        /\ UNCHANGED others
        /\ UNCHANGED orchestrator

\* A faulty variant of the call: the blocks it commits are taken out of the
\* block store.
TryCommitConsuming(w) ==
    LET result == try_commit(block_store, w)
    IN  /\ last_decided' = w
        /\ committed' = result
        /\ metric_incs' = metrics_of(result)
        /\ fresh' = TRUE
        /\ peer_fresh' = FALSE
        /\ block_store' = SelectSeq(block_store,
               LAMBDA b : \A j \in DOMAIN result : result[j].block # b)
        /\ UNCHANGED << peer_store, peer_committed, omitted >>
        /\ UNCHANGED others
        /\ UNCHANGED orchestrator

\* One try_commit(w) call on this authority's committer.
TryCommit(w) ==
    LET result == try_commit(block_store, w)
    IN  /\ last_decided' = w
        /\ committed' = result
        /\ metric_incs' = metrics_of(result)
        /\ fresh' = TRUE
        /\ peer_fresh' = FALSE
        /\ UNCHANGED << block_store, peer_store, peer_committed, omitted >>
        /\ UNCHANGED others
        /\ UNCHANGED orchestrator

Next ==
    \/ InsertGenesis
    \/ \E a \in Authorities, round \in 1 .. MaxRound : AddBlock(a, round)
    \/ \E w \in Watermarks : TryCommit(w)

Spec == Init /\ [][Next]_vars

\* ------------------------------------------------------- round by round

\* The authority has started and holds the genesis blocks.
InitRounds ==
    /\ block_store = GenesisBlocks
    /\ peer_store = << >>
    /\ last_decided = GenesisRef(0)
    /\ committed = << >>
    /\ peer_committed = << >>
    /\ metric_incs = << >>
    /\ fresh = FALSE
    /\ peer_fresh = FALSE
    /\ omitted = 0
    /\ BuiltByDefault

\* The round and the author of the next block when every authority has one
\* block per round and the blocks arrive round by round, the leader's first.
NextRound(store) ==
    1 + (Len(store) - Len(GenesisBlocks)) \div Cardinality(Authorities)

NextAuthor(store) ==
    (leader_for(NextRound(store)) + (Len(store) - Len(GenesisBlocks)))
        % Cardinality(Authorities)

\* The next block arrives and is inserted, once the caller has handed over
\* what its latest call returned. With omit the block leaves the previous
\* round's leader block out of its parents.
AddRoundBlock(omit) ==
    /\ committed = << >>
    /\ NextRound(block_store) <= MaxWaveRound
    /\ omit => omitted < MaxOmissions
    /\ block_store' = insert_block(block_store,
           NewBlock(block_store, NextAuthor(block_store), NextRound(block_store), omit))
    /\ omitted' = IF omit THEN omitted + 1 ELSE omitted
    /\ fresh' = FALSE
    /\ UNCHANGED << peer_store, last_decided, committed, peer_committed,
                    metric_incs, peer_fresh >>
    /\ UNCHANGED others
    /\ UNCHANGED orchestrator

\* The caller hands the returned leaders to the linearizer and drops the
\* sequence.
HandOver ==
    /\ committed # << >>
    /\ committed' = << >>
    /\ metric_incs' = << >>
    /\ fresh' = FALSE
    /\ UNCHANGED << block_store, peer_store, last_decided, peer_committed,
                    peer_fresh, omitted >>
    /\ UNCHANGED others
    /\ UNCHANGED orchestrator

NextRounds ==
    \/ \E omit \in BOOLEAN : AddRoundBlock(omit)
    \/ \E w \in Watermarks : TryCommit(w)
    \/ HandOver

SpecRounds == InitRounds /\ [][NextRounds]_vars

\* ------------------------------------------------- two honest authorities

\* Both authorities have started and hold the genesis blocks.
InitAgreement ==
    /\ block_store = GenesisBlocks
    /\ peer_store = GenesisBlocks
    /\ last_decided = GenesisRef(0)
    /\ committed = << >>
    /\ peer_committed = << >>
    /\ metric_incs = << >>
    /\ fresh = FALSE
    /\ peer_fresh = FALSE
    /\ omitted = 0
    /\ BuiltByDefault

\* A block this authority holds reaches the peer, in whatever order the
\* network delivers, and is inserted into the peer's store.
PeerInsert(i) ==
    /\ block_store[i].reference \notin Refs(peer_store)
    /\ peer_store' = insert_block(peer_store, block_store[i])
    /\ peer_fresh' = FALSE
    /\ UNCHANGED << block_store, last_decided, committed, peer_committed,
                    metric_incs, fresh, omitted >>
    /\ UNCHANGED others
    /\ UNCHANGED orchestrator

\* The peer's committer is called with the watermark of this authority's call.
PeerTryCommit ==
    /\ fresh
    /\ peer_committed' = try_commit(peer_store, last_decided)
    /\ peer_fresh' = TRUE
    /\ UNCHANGED << block_store, peer_store, last_decided, committed,
                    metric_incs, fresh, omitted >>
    /\ UNCHANGED others
    /\ UNCHANGED orchestrator

NextAgreement ==
    \/ \E a \in Authorities, round \in 1 .. MaxRound : AddBlock(a, round)
    \/ \E w \in Watermarks : TryCommit(w)
    \/ \E i \in DOMAIN block_store : PeerInsert(i)
    \/ PeerTryCommit

SpecAgreement == InitAgreement /\ [][NextAgreement]_vars


\* ------------------------------------------------------- the commit stream

\* The elements of a returned sequence that decide round r.
DecisionsFor(seq, r) == { seq[i] : i \in { j \in DOMAIN seq : StatusRound(seq[j]) = r } }

StrictlyIncreasing(seq) ==
    \A i, j \in DOMAIN seq : i < j => StatusRound(seq[i]) < StatusRound(seq[j])

\* C1 (monotonic safety): a decision that a call returned for round r is the
\* decision that a call on the store as it has grown since returns for round
\* r, whatever watermark below r that call is given.
C1_MonotonicSafety ==
    \A i \in DOMAIN committed :
        \A w \in Watermarks :
            w.round < StatusRound(committed[i]) =>
                DecisionsFor(try_commit(block_store, w), StatusRound(committed[i]))
                    = { committed[i] }

\* A returned decision whose round has received a second block since.
C1_Witness ==
    /\ ~fresh
    /\ \E i \in DOMAIN committed :
           Len(get_blocks_by_round(block_store, StatusRound(committed[i]))) >= 2

\* A call that repeats the call before it: same watermark, same store.
RepeatedCall ==
    /\ fresh /\ fresh'
    /\ last_decided' = last_decided
    /\ block_store' = block_store

\* C3 (idempotence): a call that repeats the call before it, with the same
\* watermark on an unchanged store, returns the same sequence.
C3_Idempotence == [][RepeatedCall => committed' = committed]_vars

\* A call has returned two decisions on the present store.
C3_Witness == fresh /\ Len(committed) >= 2

\* C4 (round ordering): the rounds of a returned sequence are strictly
\* increasing.
C4_RoundOrdering == StrictlyIncreasing(committed)

\* A returned sequence of two decisions, the first for a round with two blocks.
C4_Witness ==
    /\ fresh
    /\ Len(committed) >= 2
    /\ Len(get_blocks_by_round(block_store, StatusRound(committed[1]))) >= 2

\* C5 (no premature commit): no returned decision is for round 0 or for a
\* round at or below the watermark's.
C5_NoPrematureCommit ==
    \A i \in DOMAIN committed :
        /\ StatusRound(committed[i]) # 0
        /\ StatusRound(committed[i]) > last_decided.round

\* A call above a watermark at round 1 or more has returned a decision.
C5_Witness == fresh /\ last_decided.round >= 1 /\ committed # << >>

\* C6: a call whose watermark is at or above the store's highest round
\* returns the empty sequence, and no returned decision is for a round above
\* the store's highest round.
C6_HighestRound ==
    fresh =>
        /\ last_decided.round >= highest_round(block_store) => committed = << >>
        /\ \A i \in DOMAIN committed :
               StatusRound(committed[i]) <= highest_round(block_store)

\* A call with the watermark at the highest round of a store that has blocks
\* above genesis.
C6_Witness ==
    /\ fresh
    /\ highest_round(block_store) >= 1
    /\ last_decided.round = highest_round(block_store)

\* ------------------------------------------------------------- agreement

Blocks(store) == { store[i] : i \in DOMAIN store }

\* C2 (agreement): two honest authorities whose stores hold the same blocks
\* obtain the same sequence from try_commit for the same watermark, whatever
\* the order the blocks were inserted in.
C2_Agreement ==
    (fresh /\ peer_fresh /\ Blocks(block_store) = Blocks(peer_store))
        => committed = peer_committed

\* ------------------------------------------------------- the commit rule

\* The blocks the round's leader has in the store.
LeaderBlocks(store, round) ==
    { b \in Blocks(store) :
        b.reference.round = round /\ b.reference.authority = leader_for(round) }

\* The authorities with a block at the round after ref's that has ref among
\* its parents, and those with one that has not.
Certifiers(store, ref) ==
    { b.reference.authority : b \in { x \in Blocks(store) :
        x.reference.round = ref.round + 1 /\ ref \in x.includes } }

Omitters(store, ref) ==
    { b.reference.authority : b \in { x \in Blocks(store) :
        x.reference.round = ref.round + 1 /\ ref \notin x.includes } }

IsQuorum(S) == StakeSum(S) >= quorum_threshold

\* The references in the transitive parent closure of the references S.
RECURSIVE History(_, _)
History(store, S) ==
    LET parents == UNION { b.includes : b \in { x \in Blocks(store) : x.reference \in S } }
    IN  IF parents \subseteq S THEN S ELSE History(store, S \cup parents)

\* A later leader block that seq returns as Commit has ref in its causal
\* history.
ReachedByLaterCommit(store, seq, ref) ==
    \E i \in DOMAIN seq :
        /\ seq[i].kind = "Commit"
        /\ StatusRound(seq[i]) > ref.round
        /\ seq[i].block \in LeaderBlocks(store, StatusRound(seq[i]))
        /\ ref \in History(store, {seq[i].block.reference})

\* C7 (quorum commit): a leader block above the watermark that a quorum of
\* the next round's blocks have among their parents is returned as Commit,
\* and one that fewer than a quorum have, and that no later committed leader
\* has in its causal history, is not.
C7_QuorumCommit ==
    fresh =>
        \A r \in (last_decided.round + 1) .. highest_round(block_store) :
            \A b \in LeaderBlocks(block_store, r) :
                /\ IsQuorum(Certifiers(block_store, b.reference))
                       => Commit(b) \in DecisionsFor(committed, r)
                /\ (/\ ~IsQuorum(Certifiers(block_store, b.reference))
                    /\ ~ReachedByLaterCommit(block_store, committed, b.reference))
                       => Commit(b) \notin DecisionsFor(committed, r)

\* C9 (direct skip): for a round above the watermark whose leader has no
\* block in the store, or whose leader block a quorum of the next round's
\* blocks leave out of their parents, the call returns Skip(leader), in round
\* order.
C9_DirectSkip ==
    fresh =>
        /\ StrictlyIncreasing(committed)
        /\ \A r \in (last_decided.round + 1) .. highest_round(block_store) :
               (\/ LeaderBlocks(block_store, r) = {}
                \/ \E b \in LeaderBlocks(block_store, r) :
                       IsQuorum(Omitters(block_store, b.reference)))
                   => Skip(leader_for(r), r) \in DecisionsFor(committed, r)

\* The leader of the round has a block that a quorum of the next round's
\* blocks have among their parents.
DirectlyCommitted(store, round) ==
    \E b \in LeaderBlocks(store, round) : IsQuorum(Certifiers(store, b.reference))

NoLaterDirectCommit(store, round) ==
    \A r \in (round + 1) .. highest_round(store) : ~DirectlyCommitted(store, r)

\* C8 (Undecided is never surfaced): no returned element is Undecided, and
\* for a leader block above the watermark that two of the next round's blocks
\* have among their parents and two leave out, with no later leader
\* committed, the returned sequence has no element for the block's round.
C8_UndecidedNotSurfaced ==
    /\ \A i \in DOMAIN committed : committed[i].kind # "Undecided"
    /\ fresh =>
           \A r \in (last_decided.round + 1) .. highest_round(block_store) :
               \A b \in LeaderBlocks(block_store, r) :
                   (/\ Cardinality(Certifiers(block_store, b.reference)) = 2
                    /\ Cardinality(Omitters(block_store, b.reference)) = 2
                    /\ NoLaterDirectCommit(block_store, r))
                       => DecisionsFor(committed, r) = {}

\* C10 (indirect resolution): the round-5 leader block that two of four
\* round-6 blocks have among their parents is not returned while no later
\* leader is committed; once the round-9 leader block is directly committed
\* the call with the same watermark returns Commit for round 5 if that
\* block's causal history holds the round-5 leader block, and Skip if not.
C10_IndirectResolution ==
    (fresh /\ last_decided.round < 5) =>
        \A b \in LeaderBlocks(block_store, 5) :
            (/\ Cardinality(Certifiers(block_store, b.reference)) = 2
             /\ Cardinality(Omitters(block_store, b.reference)) = 2)
            =>  /\ NoLaterDirectCommit(block_store, 5)
                    => DecisionsFor(committed, 5) = {}
                /\ \A l \in LeaderBlocks(block_store, 9) :
                       IsQuorum(Certifiers(block_store, l.reference)) =>
                           IF b.reference \in History(block_store, {l.reference})
                           THEN DecisionsFor(committed, 5) = { Commit(b) }
                           ELSE DecisionsFor(committed, 5) = { Skip(leader_for(5), 5) }

\* ------------------------------------------------- blocks at far-apart rounds
\* The block store accepts a block at any round, so blocks may arrive many
\* rounds above every block the store holds, and rounds stay without blocks.
SparseAddBlock(a, round) ==
    /\ Len(block_store) < Len(GenesisBlocks) + MaxSparseBlocks
    /\ AddBlock(a, round)

NextSparse ==
    \/ \E a \in Authorities, round \in 1 .. MaxSparseRound : SparseAddBlock(a, round)
    \/ \E w \in Watermarks : TryCommit(w)

SpecSparse == InitRounds /\ [][NextSparse]_vars

\* The rounds above the watermark that are leader rounds of a configured base
\* committer and lie wave_length + 2 rounds or more below the highest round.
OverdueRounds(store, cs, w) ==
    { r \in 1 .. highest_round(store) :
        /\ r > w.round
        /\ \E i \in DOMAIN cs :
               /\ Responsible(cs[i], r)
               /\ highest_round(store) >= r + cs[i].wave_length + 2 }

\* C11 (liveness): the call returns a Commit or a Skip for every leader round
\* above the watermark that the store's highest round has passed by
\* wave_length + 2 rounds or more; no such round is left without a decision.
C11_Liveness ==
    fresh =>
        \A r \in OverdueRounds(block_store, committers, last_decided) :
            \E s \in DecisionsFor(committed, r) : s.kind \in { "Commit", "Skip" }

\* C12 (leader rounds only): every returned decision is for a round that one
\* of the configured base committers answers for, round mod wave_length being
\* its round_offset; a committer built without pipeline, with its single base
\* committer at offset 0, returns no decision for a round that is not a leader
\* round of offset 0.
C12_OnlyLeaderRounds ==
    \A i \in DOMAIN committed :
        \E j \in DOMAIN committers :
            Responsible(committers[j], StatusRound(committed[i]))

\* C13 (leader authored): the block of every returned Commit is authored by
\* the authority that the leader schedule designates for the block's round.
C13_LeaderAuthored ==
    \A i \in DOMAIN committed :
        committed[i].kind = "Commit" =>
            committed[i].block.reference.authority
                = leader_for(committed[i].block.reference.round)

\* ------------------------------------------------------------ driving loops
\* The reference a caller takes as its next watermark from a returned element.
status_reference(s) ==
    IF s.kind = "Commit" THEN s.block.reference
    ELSE BlockReference(StatusAuthority(s), StatusRound(s), 0)

\* One iteration of a caller's loop over the committer self: it calls
\* try_commit at its watermark, appends what the call returns to its stream
\* and, when the call returned something, moves its watermark to the last
\* returned element.
tick(self, d) ==
    LET result == self_try_commit(self, d.watermark)
    IN  [watermark |-> IF result = << >> THEN d.watermark
                       ELSE status_reference(result[Len(result)]),
         stream |-> d.stream \o result]

\* The loop of this committer. The variables of the latest call follow it.
DriverTick ==
    LET self == UniversalCommitter(block_store, committers)
        result == self_try_commit(self, driver.watermark)
    IN  /\ driver' = tick(self, driver)
        /\ last_decided' = driver.watermark
        /\ committed' = result
        /\ metric_incs' = metrics_of(result)
        /\ fresh' = TRUE
        /\ peer_fresh' = FALSE
        /\ UNCHANGED << block_store, peer_store, peer_committed, omitted, builder,
                        committers, pipelined_committers, pipelined_driver, call >>
        /\ UNCHANGED orchestrator

\* The loop of the second committer, which shares the block store.
PipelinedTick ==
    /\ pipelined_driver' =
           tick(UniversalCommitter(block_store, pipelined_committers), pipelined_driver)
    /\ UNCHANGED << block_store, peer_store, last_decided, committed, peer_committed,
                    metric_incs, fresh, peer_fresh, omitted, builder, committers,
                    pipelined_committers, driver, call >>
    /\ UNCHANGED orchestrator

\* ------------------------------------------- with and without the pipeline
\* Two committers of wave length 3 on one block store, the first built
\* without pipeline and the second with it. The DAG grows round by round,
\* every authority with a block in every round, and each loop runs at its
\* own pace.
InitPipeline ==
    /\ block_store = GenesisBlocks
    /\ peer_store = << >>
    /\ last_decided = GenesisRef(0)
    /\ committed = << >>
    /\ peer_committed = << >>
    /\ metric_incs = << >>
    /\ fresh = FALSE
    /\ peer_fresh = FALSE
    /\ omitted = 0
    /\ builder = [with_wave_length(new_builder, 3) EXCEPT !.built = TRUE]
    /\ committers = build(with_pipeline(with_wave_length(new_builder, 3), FALSE))
    /\ pipelined_committers = build(with_pipeline(with_wave_length(new_builder, 3), TRUE))
    /\ driver = IdleDriver
    /\ pipelined_driver = IdleDriver
    /\ call = IdleCall
    /\ OrchestratorIdle

NextPipeline ==
    \/ AddRoundBlock(FALSE)
    \/ DriverTick
    \/ HandOver
    \/ PipelinedTick

SpecPipeline == InitPipeline /\ [][NextPipeline]_vars

CommittedBlocks(stream) ==
    { stream[i].block : i \in { j \in DOMAIN stream : stream[j].kind = "Commit" } }

InitBuilder ==
    /\ block_store = GenesisBlocks
    /\ peer_store = << >>
    /\ last_decided = GenesisRef(0)
    /\ committed = << >>
    /\ peer_committed = << >>
    /\ metric_incs = << >>
    /\ fresh = FALSE
    /\ peer_fresh = FALSE
    /\ omitted = 0
    /\ builder = new_builder
    /\ committers = << >>
    /\ pipelined_committers = << >>
    /\ driver = IdleDriver
    /\ pipelined_driver = IdleDriver
    /\ call = IdleCall
    /\ OrchestratorIdle

WithWaveLength(wave_length) ==
    /\ ~builder.built
    /\ builder' = with_wave_length(builder, wave_length)
    /\ UNCHANGED << block_store, peer_store, last_decided, committed, peer_committed,
                    metric_incs, fresh, peer_fresh, omitted, committers,
                    pipelined_committers, driver, pipelined_driver, call >>
    /\ UNCHANGED orchestrator

WithPipeline(pipeline) ==
    /\ ~builder.built
    /\ builder' = with_pipeline(builder, pipeline)
    /\ UNCHANGED << block_store, peer_store, last_decided, committed, peer_committed,
                    metric_incs, fresh, peer_fresh, omitted, committers,
                    pipelined_committers, driver, pipelined_driver, call >>
    /\ UNCHANGED orchestrator

Build ==
    /\ ~builder.built
    /\ committers' = build(builder)
    /\ builder' = [builder EXCEPT !.built = TRUE]
    /\ UNCHANGED << block_store, peer_store, last_decided, committed, peer_committed,
                    metric_incs, fresh, peer_fresh, omitted, pipelined_committers,
                    driver, pipelined_driver, call >>
    /\ UNCHANGED orchestrator

\* try_commit is a method of the committer that build() returns.
BuiltTryCommit(w) ==
    /\ builder.built
    /\ TryCommit(w)

NextBuilder ==
    \/ \E wave_length \in 0 .. MaxWaveLength : WithWaveLength(wave_length)
    \/ \E pipeline \in BOOLEAN : WithPipeline(pipeline)
    \/ Build
    \/ AddRoundBlock(FALSE)
    \/ \E w \in Watermarks : BuiltTryCommit(w)
    \/ HandOver

SpecBuilder == InitBuilder /\ [][NextBuilder]_vars

\* C15 (builder): build() creates exactly pipeline_stages base committers,
\* pipeline_stages being the builder's wave length when its pipeline flag is
\* set and 1 otherwise, with the round offsets 0 .. pipeline_stages - 1 in
\* that order and each with the builder's wave length, the values being those
\* the builder holds from its latest with_wave_length and with_pipeline calls;
\* a builder left at its defaults yields one committer at offset 0.
C15_Build ==
    builder.built =>
        /\ Len(committers) = IF builder.pipeline THEN builder.wave_length ELSE 1
        /\ \A i \in DOMAIN committers :
               /\ committers[i].round_offset = i - 1
               /\ committers[i].wave_length = builder.wave_length
        /\ (builder.wave_length = DEFAULT_WAVE_LENGTH /\ ~builder.pipeline) =>
               committers = << [wave_length |-> DEFAULT_WAVE_LENGTH, round_offset |-> 0] >>

\* A builder given a wave length above the default and the pipeline flag has
\* been built, and the committer it built has been called.
C15_Witness ==
    /\ builder.built
    /\ builder.pipeline
    /\ builder.wave_length > DEFAULT_WAVE_LENGTH
    /\ Len(committers) > 1
    /\ fresh
    /\ committed # << >>

\* ------------------------------------------- a call, statement by statement
\* The body of try_commit's loop for one round: the first block of the round,
\* when the round holds one and lies above the watermark.
commit_round(store, last_decided_round, round) ==
    LET blocks == get_blocks_by_round(store, round)
    IN  IF blocks # << >> /\ Head(blocks).reference.round > last_decided_round
        THEN << Commit(Head(blocks)) >>
        ELSE << >>

\* try_commit is entered: it reads the highest round once and returns at once
\* when the watermark is not below it.
CallBegin(w) ==
    /\ call.pc = "idle"
    /\ LET highest == highest_round(block_store)
       IN  call' = IF w.round >= highest
                   THEN [pc |-> "done", last_decided |-> w, highest |-> highest,
                         round |-> w.round, acc |-> << >>]
                   ELSE [pc |-> "loop", last_decided |-> w, highest |-> highest,
                         round |-> w.round + 1, acc |-> << >>]
    /\ metric_incs' = << >>
    /\ fresh' = FALSE
    /\ UNCHANGED << block_store, peer_store, last_decided, committed, peer_committed,
                    peer_fresh, omitted, builder, committers, pipelined_committers,
                    driver, pipelined_driver >>
    /\ UNCHANGED orchestrator

\* A faulty variant of the loop: an empty round is read again and again.
CallStepStuck ==
    /\ call.pc = "loop"
    /\ LET here == commit_round(block_store, call.last_decided.round, call.round)
       IN  /\ call' = [call EXCEPT
                          !.acc = call.acc \o here,
                          !.round = IF here = << >> THEN call.round ELSE call.round + 1,
                          !.pc = IF here # << >> /\ call.round = call.highest
                                 THEN "done" ELSE "loop"]
           /\ metric_incs' = metric_incs \o metrics_of(here)
    /\ UNCHANGED << block_store, peer_store, last_decided, committed, peer_committed,
                    fresh, peer_fresh, omitted, builder, committers,
                    pipelined_committers, driver, pipelined_driver >>
    /\ UNCHANGED orchestrator

\* A faulty variant of the loop: its end is the store's highest round as read
\* in each iteration.
CallStepRereading ==
    /\ call.pc = "loop"
    /\ LET here == commit_round(block_store, call.last_decided.round, call.round)
       IN  /\ call' = [call EXCEPT
                          !.acc = call.acc \o here,
                          !.round = call.round + 1,
                          !.pc = IF call.round >= highest_round(block_store)
                                 THEN "done" ELSE "loop"]
           /\ metric_incs' = metric_incs \o metrics_of(here)
    /\ UNCHANGED << block_store, peer_store, last_decided, committed, peer_committed,
                    fresh, peer_fresh, omitted, builder, committers,
                    pipelined_committers, driver, pipelined_driver >>
    /\ UNCHANGED orchestrator

\* One iteration of the loop: the blocks of the round are read from the store
\* as it is now, the decision is pushed and counted.
CallStep ==
    /\ call.pc = "loop"
    /\ LET here == commit_round(block_store, call.last_decided.round, call.round)
       IN  /\ call' = [call EXCEPT
                          !.acc = call.acc \o here,
                          !.round = call.round + 1,
                          !.pc = IF call.round = call.highest THEN "done" ELSE "loop"]
           /\ metric_incs' = metric_incs \o metrics_of(here)
    /\ UNCHANGED << block_store, peer_store, last_decided, committed, peer_committed,
                    fresh, peer_fresh, omitted, builder, committers,
                    pipelined_committers, driver, pipelined_driver >>
    /\ UNCHANGED orchestrator

\* The call returns the sequence it has built.
CallReturn ==
    /\ call.pc = "done"
    /\ last_decided' = call.last_decided
    /\ committed' = call.acc
    /\ call' = IdleCall
    /\ UNCHANGED << block_store, peer_store, peer_committed, metric_incs, fresh,
                    peer_fresh, omitted, builder, committers, pipelined_committers,
                    driver, pipelined_driver >>
    /\ UNCHANGED orchestrator

\* Another thread appends a block, whatever the call is doing.
InterleavedAddBlock(a, round) ==
    /\ Len(block_store) < Len(GenesisBlocks) + MaxInterleaved
    /\ AddBlock(a, round)

NextConcurrent ==
    \/ \E a \in Authorities, round \in 1 .. MaxRound : InterleavedAddBlock(a, round)
    \/ \E w \in Watermarks : CallBegin(w)
    \/ CallStep
    \/ CallReturn

SpecConcurrent == InitRounds /\ [][NextConcurrent]_vars

\* The thread that runs try_commit keeps running.
SpecConcurrentFair ==
    SpecConcurrent /\ WF_vars(CallStep) /\ WF_vars(CallReturn)

\* C16 (appends during a call): with blocks appended while the call runs,
\* every decision the call has pushed is for a round above the watermark and
\* at most the highest round read at its start, and is the decision that a
\* call on the store as it has grown since returns for that round.
C16_ConcurrentAppend ==
    \A i \in DOMAIN call.acc :
        /\ StatusRound(call.acc[i]) > call.last_decided.round
        /\ StatusRound(call.acc[i]) <= call.highest
        /\ DecisionsFor(try_commit(block_store, call.last_decided),
                        StatusRound(call.acc[i])) = { call.acc[i] }

\* The call is about to return a decision, and since it read the highest
\* round a block was appended above that round.
C16_Witness ==
    /\ call.pc = "done"
    /\ call.acc # << >>
    /\ highest_round(block_store) > call.highest

\* C17 (termination): whatever the watermark and the DAG, a call that has
\* entered its loop reaches its return statement.
C17_Termination == (call.pc = "loop") ~> (call.pc = "done")

\* A call has run through a round without blocks and is about to return.
C17_Witness ==
    /\ call.pc = "done"
    /\ call.acc # << >>
    /\ \E r \in 1 .. call.highest :
           /\ r > call.last_decided.round
           /\ get_blocks_by_round(block_store, r) = << >>

\* The returned elements that are decided, in the order returned.
Decided(seq) == SelectSeq(seq, LAMBDA s : s.kind \in { "Commit", "Skip" })

\* C18 (metrics): a call increments the counter once for each Commit or Skip
\* it returns, in the order returned, under the leader's authority and its
\* kind (the code decides every leader directly), and not for an Undecided
\* element; what the call returns is a function of the store and the
\* watermark, whatever was counted before.
C18_Metrics ==
    /\ Len(metric_incs) = Len(Decided(committed))
    /\ \A i \in DOMAIN metric_incs :
           /\ metric_incs[i][1] = StatusAuthority(Decided(committed)[i])
           /\ metric_incs[i][2] = "direct"
           /\ metric_incs[i][3] =
                  (IF Decided(committed)[i].kind = "Commit" THEN "commit" ELSE "skip")
    /\ fresh => committed = try_commit(block_store, last_decided)

\* A call has returned two leaders of different authorities.
C18_Witness ==
    /\ fresh
    /\ Len(committed) >= 2
    /\ StatusAuthority(committed[1]) # StatusAuthority(committed[2])
    /\ Len(metric_incs) >= 2

\* C19 (equivocation): whatever blocks a round holds, several of one author
\* among them, and however the store has grown since the call, the call
\* returned at most one Commit for the round, and its block is the first
\* block of the round in the store's order.
C19_Equivocation ==
    \A i \in DOMAIN committed :
        committed[i].kind = "Commit" =>
            /\ committed[i].block
                   = Head(get_blocks_by_round(block_store, StatusRound(committed[i])))
            /\ \A j \in DOMAIN committed :
                   StatusRound(committed[j]) = StatusRound(committed[i]) => j = i

\* The leader of a round has two blocks at the round, the second inserted
\* after a call that returned a decision for the round.
C19_Witness ==
    /\ ~fresh
    /\ \E i \in DOMAIN committed :
           /\ Cardinality(LeaderBlocks(block_store, StatusRound(committed[i]))) >= 2
           /\ committed[i].block \in LeaderBlocks(block_store, StatusRound(committed[i]))

\* ------------------------------------------ the loop over a store that grows
\* Blocks are inserted in any order of rounds while the caller's loop runs.
NextDriver ==
    \/ InsertGenesis
    \/ \E a \in Authorities, round \in 1 .. MaxRound : AddBlock(a, round)
    \/ DriverTick

SpecDriver == Init /\ [][NextDriver]_vars

\* C20 (incremental equals batch): the concatenation of what the loop's calls
\* returned has strictly increasing rounds, hence no round twice, and after
\* the loop's latest call it is the sequence that one call from the initial
\* watermark returns on the store as it is then.
C20_IncrementalEqualsBatch ==
    /\ StrictlyIncreasing(driver.stream)
    /\ fresh => driver.stream = try_commit(block_store, IdleDriver.watermark)

\* C21 (frame effect): a try_commit call leaves the block store, the
\* committer's base committers and the builder's configuration as they were,
\* and what it returns is try_commit of the store and the watermark it was
\* given, whatever calls were made before it.
C21_FrameEffect ==
    [][fresh' =>
           /\ block_store' = block_store
           /\ committers' = committers
           /\ builder' = builder
           /\ committed' = try_commit(block_store, last_decided')]_vars

\* A call with a watermark above genesis has returned decisions.
C21_Witness ==
    /\ fresh
    /\ last_decided.round > 0
    /\ committed # << >>
    /\ Len(block_store) > Len(GenesisBlocks) + 1

\* ------------------------------------------------------------- LocalClient
Digits == << "0", "1", "2", "3", "4", "5", "6", "7", "8", "9" >>

\* usize::to_string: the decimal digits, most significant first.
RECURSIVE to_string(_)
to_string(n) ==
    IF n < 10 THEN Digits[n + 1]
    ELSE to_string(n \div 10) \o Digits[(n % 10) + 1]

\* The Instance that create_instance builds for an id.
Instance(id) ==
    [id |-> id, region |-> "local", main_ip |-> "127.0.0.1", tags |-> << >>,
     specs |-> "local", status |-> "Active"]

\* The ids a caller may hand to the client, stored or not.
InstanceIds == { to_string(n) : n \in 0 .. MaxInstances }

list_instances(guard) == guard

\* A faulty variant of start_instances: every stored instance is started.
start_instances_all(guard, instance_ids) ==
    [i \in DOMAIN guard |-> [guard[i] EXCEPT !.status = "Active"]]

start_instances(guard, instance_ids) ==
    [i \in DOMAIN guard |->
        IF guard[i].id \in instance_ids
        THEN [guard[i] EXCEPT !.status = "Active"]
        ELSE guard[i]]

stop_instances(guard, instance_ids) ==
    [i \in DOMAIN guard |->
        IF guard[i].id \in instance_ids
        THEN [guard[i] EXCEPT !.status = "Inactive"]
        ELSE guard[i]]

\* create_instance: the id is the length of the Vec at the time of the call.
create_instance(guard) == Append(guard, Instance(to_string(Len(guard))))

delete_instance(guard, id) == SelectSeq(guard, LAMBDA x : x.id # id)

consensus ==
    << block_store, peer_store, last_decided, committed, peer_committed,
       metric_incs, fresh, peer_fresh, omitted, others >>

\* The operations as one caller makes them, one after the other.
ListInstances ==
    /\ client_call' = [op |-> "list", ids |-> { }, result |-> list_instances(instances)]
    /\ UNCHANGED << instances, lock, tasks, history, exec, consensus >>

StartInstances(ids) ==
    /\ instances' = start_instances(instances, ids)
    /\ client_call' = [op |-> "start", ids |-> ids, result |-> << >>]
    /\ UNCHANGED << lock, tasks, history, exec, consensus >>

StopInstances(ids) ==
    /\ instances' = stop_instances(instances, ids)
    /\ client_call' = [op |-> "stop", ids |-> ids, result |-> << >>]
    /\ history' = [history EXCEPT !.removed = TRUE]
    /\ UNCHANGED << lock, tasks, exec, consensus >>

CreateInstance ==
    /\ Len(history.created) < MaxInstances
    /\ instances' = create_instance(instances)
    /\ client_call' = [op |-> "create", ids |-> { },
                       result |-> << instances'[Len(instances')] >>]
    /\ history' = [history EXCEPT !.created = Append(@, instances'[Len(instances')].id)]
    /\ UNCHANGED << lock, tasks, exec, consensus >>

DeleteInstance(id) ==
    /\ instances' = delete_instance(instances, id)
    /\ client_call' = [op |-> "delete", ids |-> { id }, result |-> << >>]
    /\ history' = [history EXCEPT !.removed = TRUE]
    /\ UNCHANGED << lock, tasks, exec, consensus >>

NextClient ==
    \/ ListInstances
    \/ \E ids \in SUBSET InstanceIds : StartInstances(ids)
    \/ \E ids \in SUBSET InstanceIds : StopInstances(ids)
    \/ CreateInstance
    \/ \E id \in InstanceIds : DeleteInstance(id)

SpecClient == Init /\ [][NextClient]_vars

\* C22 (unique ids): whatever operations came before, no two instances that
\* list_instances returns have the same id.
C22_UniqueIds ==
    client_call.op = "list" =>
        \A i, j \in DOMAIN client_call.result :
            client_call.result[i].id = client_call.result[j].id => i = j

\* The instance but for its status.
WithStatus(instance, status) == [instance EXCEPT !.status = status]

\* After a start or stop with the given ids: the same instances in the same
\* places, those with a given id in the given status and otherwise
\* unchanged, the others unchanged.
OnlyStatusOf(before, after, ids, status) ==
    /\ Len(after) = Len(before)
    /\ \A i \in DOMAIN before :
           IF before[i].id \in ids
           THEN after[i] = WithStatus(before[i], status)
           ELSE after[i] = before[i]

\* C24 (frame effect): start_instances and stop_instances change the status
\* of the stored instances with a given id, to Active and to Inactive, and
\* nothing else, whether the given ids are stored or not; delete_instance
\* removes the instances with the given id and keeps the others as they were
\* and in their order; all three return Ok(()).
C24_FrameEffect ==
    [][/\ client_call'.op = "start" =>
              OnlyStatusOf(instances, instances', client_call'.ids, "Active")
       /\ client_call'.op = "stop" =>
              OnlyStatusOf(instances, instances', client_call'.ids, "Inactive")
       /\ client_call'.op = "delete" =>
              instances' = SelectSeq(instances, LAMBDA x : x.id \notin client_call'.ids)
       /\ client_call'.op \in { "start", "stop", "delete" } =>
              client_call'.result = << >>]_vars

\* A start was given the id of a stored instance and an id that is not
\* stored, and left a stopped instance stopped.
C24_Witness ==
    /\ client_call.op = "start"
    /\ \E i \in DOMAIN instances : instances[i].id \in client_call.ids
    /\ \E id \in client_call.ids : \A i \in DOMAIN instances : instances[i].id # id
    /\ \E i \in DOMAIN instances :
           instances[i].id \notin client_call.ids /\ instances[i].status = "Inactive"

\* ------------------------------------------- LocalClient called from tasks
\* Each task calls one operation after the other. An operation locks the
\* mutex, works on the Vec and unlocks when its guard is dropped at the end
\* of the function.
Operations == { "list", "start", "stop", "create", "delete" }

\* The ids a task hands over: those of all instances or of the first created.
TaskIds == { InstanceIds, { to_string(0) } }

Creating == { t \in Tasks : tasks[t].op = "create" /\ tasks[t].pc # "idle" }

TaskCall(t, op, ids) ==
    /\ tasks[t].pc = "idle"
    /\ op = "create" => Len(history.created) + Cardinality(Creating) < MaxCreated
    /\ op = "delete" => Cardinality(ids) = 1
    /\ tasks' = [tasks EXCEPT ![t] =
                    [@ EXCEPT !.op = op, !.pc = "lock",
                              !.ids = IF op \in { "start", "stop", "delete" }
                                      THEN ids ELSE { }]]
    /\ UNCHANGED << instances, client_call, lock, history, exec, consensus >>

\* A faulty variant of locking: the mutex is taken whoever holds it.
TaskLockAnyway(t) ==
    /\ tasks[t].pc = "lock"
    /\ lock' = t
    /\ tasks' = [tasks EXCEPT ![t] = [@ EXCEPT !.pc = "apply", !.idx = 1]]
    /\ UNCHANGED << instances, client_call, history, exec, consensus >>

\* self.instances.lock().unwrap()
TaskLock(t) ==
    /\ tasks[t].pc = "lock"
    /\ lock = NoTask
    /\ lock' = t
    /\ tasks' = [tasks EXCEPT ![t] = [@ EXCEPT !.pc = "apply", !.idx = 1]]
    /\ UNCHANGED << instances, client_call, history, exec, consensus >>

\* One statement of the operation under the guard: the clone of list, one
\* element of the loop of start and stop, the length read and then the push
\* of create, the retain of delete.
TaskApply(t) ==
    LET task == tasks[t]
    IN  /\ task.pc = "apply"
        /\ CASE task.op = "list" ->
                  /\ tasks' = [tasks EXCEPT ![t] =
                         [@ EXCEPT !.result = list_instances(instances), !.pc = "unlock"]]
                  /\ UNCHANGED << instances, history >>
             [] task.op \in { "start", "stop" } ->
                  IF task.idx > Len(instances)
                  THEN /\ tasks' = [tasks EXCEPT ![t] = [@ EXCEPT !.pc = "unlock"]]
                       /\ UNCHANGED << instances, history >>
                  ELSE /\ instances' =
                              [instances EXCEPT ![task.idx] =
                                  IF @.id \in task.ids
                                  THEN [@ EXCEPT !.status =
                                           IF task.op = "start" THEN "Active" ELSE "Inactive"]
                                  ELSE @]
                       /\ tasks' = [tasks EXCEPT ![t] = [@ EXCEPT !.idx = task.idx + 1]]
                       /\ history' = [history EXCEPT !.removed = @ \/ task.op = "stop"]
             [] task.op = "create" /\ task.result = << >> ->
                  /\ tasks' = [tasks EXCEPT ![t] =
                         [@ EXCEPT !.result = << Instance(to_string(Len(instances))) >>]]
                  /\ UNCHANGED << instances, history >>
             [] task.op = "create" /\ task.result # << >> ->
                  /\ instances' = Append(instances, task.result[1])
                  /\ tasks' = [tasks EXCEPT ![t] = [@ EXCEPT !.pc = "unlock"]]
                  /\ history' = [history EXCEPT !.created = Append(@, task.result[1].id)]
             [] task.op = "delete" ->
                  /\ instances' = delete_instance(instances, CHOOSE id \in task.ids : TRUE)
                  /\ tasks' = [tasks EXCEPT ![t] = [@ EXCEPT !.pc = "unlock"]]
                  /\ history' = [history EXCEPT !.removed = TRUE]
        /\ UNCHANGED << client_call, lock, exec, consensus >>

\* The guard is dropped and the operation returns.
TaskUnlock(t) ==
    /\ tasks[t].pc = "unlock"
    /\ lock' = NoTask
    /\ tasks' = [tasks EXCEPT ![t] = IdleTask]
    /\ UNCHANGED << instances, client_call, history, exec, consensus >>

NextTasks ==
    \/ \E t \in Tasks, op \in Operations, ids \in TaskIds : TaskCall(t, op, ids)
    \/ \E t \in Tasks : TaskLock(t)
    \/ \E t \in Tasks : TaskApply(t)
    \/ \E t \in Tasks : TaskUnlock(t)

SpecTasks == Init /\ [][NextTasks]_vars

\* No operation is running, and none has stopped or deleted an instance.
OnlyCreated ==
    /\ \A t \in Tasks : tasks[t].pc = "idle"
    /\ ~history.removed

\* C23 (atomic operations): once the create_instance calls that the tasks
\* made concurrently have returned, no instance having been stopped or
\* deleted, the Vec holds one instance per call, each call returned another
\* id, and all instances are Active at 127.0.0.1; at the moment a
\* list_instances takes its result no other task is in the middle of an
\* operation on the Vec.
C23_Atomic ==
    /\ OnlyCreated =>
           /\ Len(instances) = Len(history.created)
           /\ \A i, j \in DOMAIN history.created :
                  history.created[i] = history.created[j] => i = j
           /\ { instances[i].id : i \in DOMAIN instances }
                  = { history.created[i] : i \in DOMAIN history.created }
           /\ \A i \in DOMAIN instances :
                  instances[i].status = "Active" /\ instances[i].main_ip = "127.0.0.1"
    /\ \A t \in Tasks :
           (tasks[t].op = "list" /\ tasks[t].pc = "unlock") =>
               \A u \in Tasks \ { t } : tasks[u].pc \notin { "apply", "unlock" }

\* All creations are done, and nothing else was.
C23_Witness ==
    /\ OnlyCreated
    /\ Len(instances) = MaxCreated

\* --------------------------------------------------- LocalCommandExecutor
\* The tmux sessions that `tmux ls` may list; the first is the command
\* waited for. The standard output of a command is the set of sessions it
\* lists.
command_id == "node"

Sessions == { "node", "client" }

\* CommandStatus::status(command_id, stdout): the status the output reports
\* for the command.
CommandStatus(id, stdout) == IF id \in stdout THEN "Running" ELSE "Terminated"

Statuses == { "Running", "Terminated" }

\* The results execute_command can give: an error (working directory, spawn
\* or non-zero exit code) or Ok with the standard output.
Err == [ok |-> FALSE, stdout |-> { }]

Ok(stdout) == [ok |-> TRUE, stdout |-> stdout]

CommandResults == { Err } \cup { Ok(stdout) : stdout \in SUBSET Sessions }

Targets == 0 .. MaxTargets

\* A faulty variant of the poll's test: one instance reporting the status
\* is enough.
any_reports(results, status) ==
    \E i \in DOMAIN results : CommandStatus(command_id, results[i].stdout) = status

\* result.iter().all(|(stdout, _)| CommandStatus::status(command_id, stdout) == status)
all_report(results, status) ==
    \A i \in DOMAIN results : CommandStatus(command_id, results[i].stdout) = status

\* A faulty variant of the attempt's test: only the first command counts.
first_is_ok(results) == results # << >> => results[1].ok

\* execute_per_instance(..).await.is_ok(): collecting the results gives Ok
\* when none of them is an error.
is_ok(results) == \A i \in DOMAIN results : results[i].ok

\* execute is called with n instances.
Execute(n) ==
    /\ exec.pc = "idle"
    /\ exec' = [IdleExec EXCEPT !.op = "execute", !.pc = "run", !.n = n]
    /\ UNCHANGED << instances, client_call, lock, tasks, history, consensus >>

\* wait_for_command is called with n instances and the status to wait for;
\* the loop starts with the sleep.
WaitForCommand(n, status) ==
    /\ exec.pc = "idle"
    /\ exec' = [IdleExec EXCEPT !.op = "wait_for_command", !.pc = "sleep",
                                !.n = n, !.status = status]
    /\ UNCHANGED << instances, client_call, lock, tasks, history, consensus >>

\* wait_for_success is called with n pairs of instance and command.
WaitForSuccess(n) ==
    /\ exec.pc = "idle"
    /\ exec' = [IdleExec EXCEPT !.op = "wait_for_success", !.pc = "sleep", !.n = n]
    /\ UNCHANGED << instances, client_call, lock, tasks, history, consensus >>

\* sleep(Self::RETRY_DELAY).await, then the next poll or attempt begins.
Sleep ==
    /\ exec.pc = "sleep"
    /\ exec.polls < MaxPolls
    /\ exec' = [exec EXCEPT !.pc = "run", !.polls = @ + 1, !.runs = 0,
                            !.results = << >>]
    /\ UNCHANGED << instances, client_call, lock, tasks, history, consensus >>

\* One pass of the loop of execute: the command runs for the next instance;
\* an error leaves execute at once, and wait_for_command with it.
ExecuteCommand(result) ==
    /\ exec.op \in { "execute", "wait_for_command" }
    /\ exec.pc = "run"
    /\ Len(exec.results) < exec.n
    /\ exec' = [exec EXCEPT !.runs = @ + 1,
                            !.results = Append(@, result),
                            !.pc = IF result.ok THEN "run" ELSE "done",
                            !.outcome = IF result.ok THEN "none" ELSE "Err"]
    /\ UNCHANGED << instances, client_call, lock, tasks, history, consensus >>

\* The loop of execute is over: Ok(results). The caller of execute has its
\* result; wait_for_command goes on to test it.
ExecuteOk ==
    /\ exec.op \in { "execute", "wait_for_command" }
    /\ exec.pc = "run"
    /\ Len(exec.results) = exec.n
    /\ exec' = IF exec.op = "execute"
               THEN [exec EXCEPT !.pc = "done", !.outcome = "Ok"]
               ELSE [exec EXCEPT !.pc = "check"]
    /\ UNCHANGED << instances, client_call, lock, tasks, history, consensus >>

\* execute_per_instance: one spawned task per pair runs its command; each
\* runs whatever the others give.
SpawnedCommand(result) ==
    /\ exec.op = "wait_for_success"
    /\ exec.pc = "run"
    /\ Len(exec.results) < exec.n
    /\ exec' = [exec EXCEPT !.runs = @ + 1, !.results = Append(@, result)]
    /\ UNCHANGED << instances, client_call, lock, tasks, history, consensus >>

\* try_join_all(handles).await: all tasks are done.
JoinAll ==
    /\ exec.op = "wait_for_success"
    /\ exec.pc = "run"
    /\ Len(exec.results) = exec.n
    /\ exec' = [exec EXCEPT !.pc = "check"]
    /\ UNCHANGED << instances, client_call, lock, tasks, history, consensus >>

\* The test at the end of a pass of wait_for_command: break and Ok(()), or
\* the next pass.
CheckStatus ==
    /\ exec.op = "wait_for_command"
    /\ exec.pc = "check"
    /\ exec' = IF all_report(exec.results, exec.status)
               THEN [exec EXCEPT !.pc = "done", !.outcome = "Ok"]
               ELSE [exec EXCEPT !.pc = "sleep"]
    /\ UNCHANGED << instances, client_call, lock, tasks, history, consensus >>

\* The test at the end of a pass of wait_for_success: break, or the next
\* pass.
CheckSuccess ==
    /\ exec.op = "wait_for_success"
    /\ exec.pc = "check"
    /\ exec' = IF is_ok(exec.results)
               THEN [exec EXCEPT !.pc = "done", !.outcome = "Ok"]
               ELSE [exec EXCEPT !.pc = "sleep"]
    /\ UNCHANGED << instances, client_call, lock, tasks, history, consensus >>

\* The caller has the result; the executor is free for the next call.
ExecReturn ==
    /\ exec.pc = "done"
    /\ exec' = IdleExec
    /\ UNCHANGED << instances, client_call, lock, tasks, history, consensus >>

WaitStep ==
    \/ Sleep
    \/ \E result \in CommandResults : SpawnedCommand(result)
    \/ JoinAll
    \/ CheckSuccess

NextExecutor ==
    \/ \E n \in Targets : Execute(n)
    \/ \E n \in Targets, status \in Statuses : WaitForCommand(n, status)
    \/ \E n \in Targets : WaitForSuccess(n)
    \/ \E result \in CommandResults : ExecuteCommand(result)
    \/ ExecuteOk
    \/ CheckStatus
    \/ ExecReturn
    \/ WaitStep

SpecExecutor == Init /\ [][NextExecutor]_vars

\* The executor's own steps are taken: a sleep ends, the spawned commands
\* end and are joined, the test is made.
SpecExecutorFair == SpecExecutor /\ WF_vars(WaitStep)

\* C25 (execute runs the command once): when execute returns Ok the command
\* was run exactly once, whatever the number of instances.
C25_ExecutesOnce ==
    (exec.op = "execute" /\ exec.pc = "done" /\ exec.outcome = "Ok") => exec.runs = 1

\* C26 (wait_for_command): wait_for_command returns Ok only after a poll in
\* which the command ran for every instance and every output reports the
\* requested status; after a poll in which some output reports another
\* status it sleeps and polls again, each poll following one sleep; when a
\* command of a poll fails it returns the error at once, with no further
\* command and no further poll.
C26_WaitForCommand ==
    [][(exec.op = "wait_for_command" /\ exec'.op = "wait_for_command") =>
           /\ (exec'.pc = "done" /\ exec'.outcome = "Ok") =>
                  /\ exec'.polls >= 1
                  /\ Len(exec'.results) = exec'.n
                  /\ \A i \in DOMAIN exec'.results :
                         /\ exec'.results[i].ok
                         /\ CommandStatus(command_id, exec'.results[i].stdout) = exec'.status
           /\ (/\ exec.pc = "check"
               /\ \E i \in DOMAIN exec.results :
                      CommandStatus(command_id, exec.results[i].stdout) # exec.status) =>
                  exec'.pc = "sleep" /\ exec'.outcome = "none"
           /\ exec'.polls # exec.polls =>
                  exec.pc = "sleep" /\ exec'.polls = exec.polls + 1 /\ exec'.pc = "run"
           /\ (exec.pc = "run" /\ exec'.results # exec.results
                   /\ ~exec'.results[Len(exec'.results)].ok) =>
                  /\ exec'.pc = "done"
                  /\ exec'.outcome = "Err"
                  /\ exec'.polls = exec.polls
           /\ exec.pc = "done" => exec' = exec]_vars

\* wait_for_command returned Ok at its second poll or later, for the
\* largest number of instances.
C26_Witness ==
    /\ exec.op = "wait_for_command"
    /\ exec.pc = "done"
    /\ exec.outcome = "Ok"
    /\ exec.polls >= 2
    /\ exec.n = MaxTargets

\* C27 (wait_for_success): wait_for_success returns only after an attempt
\* in which all commands ran and succeeded; an attempt with a failed command
\* is followed by a sleep and another attempt that runs all commands again,
\* never by an error; and an attempt in which all commands succeeded leads
\* to the return.
C27_WaitForSuccess ==
    /\ []((exec.op = "wait_for_success" /\ exec.pc = "done") =>
              /\ exec.outcome = "Ok"
              /\ exec.polls >= 1
              /\ exec.runs = exec.n
              /\ Len(exec.results) = exec.n
              /\ \A i \in DOMAIN exec.results : exec.results[i].ok)
    /\ []((exec.op = "wait_for_success" /\ exec.pc = "check") =>
              exec.runs = exec.n /\ Len(exec.results) = exec.n)
    /\ [][(/\ exec.op = "wait_for_success"
           /\ exec.pc = "check"
           /\ \E i \in DOMAIN exec.results : ~exec.results[i].ok) =>
              exec'.pc = "sleep" /\ exec'.outcome = "none"]_vars
    /\ (/\ exec.op = "wait_for_success"
        /\ exec.pc = "check"
        /\ \A i \in DOMAIN exec.results : exec.results[i].ok)
           ~> (exec.op = "wait_for_success" /\ exec.pc = "done")

\* wait_for_success returned at its last attempt, for the largest number of
\* commands.
C27_Witness ==
    /\ exec.op = "wait_for_success"
    /\ exec.pc = "done"
    /\ exec.polls = MaxPolls
    /\ exec.n = MaxTargets

=============================================================================
